---- MODULE Spec2Model ----
(***************************************************************************)
(* Swapchain back-buffer acquisition and presentation engine of            *)
(* vk_video_decoder/libs/VkShell/Shell.cpp (class Shell).                  *)
(*                                                                         *)
(* The module models the Shell context (ctx_): the BackBuffer registry,    *)
(* the FIFO of AcquireBuffer tokens, the swapchain handle, surface and     *)
(* extent, together with the presentation engine the Shell talks to (the   *)
(* images of the current chain, which of them the application holds, and   *)
(* whether the surface has become incompatible with the chain).            *)
(*                                                                         *)
(* Every Shell operation is one action.  assert() and a throwing           *)
(* vk::assert_success end the session: status becomes "fatal" and nothing  *)
(* runs afterwards.  A call that can never return (vkAcquireNextImageKHR   *)
(* with UINT64_MAX timeout while the application holds every image of the  *)
(* chain) sets status to "hung".                                           *)
(***************************************************************************)
EXTENDS Integers, Sequences, FiniteSets, TLC

(***************************************************************************)
(* Bounds of the model.                                                    *)
(***************************************************************************)
\* largest configured settings_.back_buffer_count
MaxBackBufferCount == 2
\* acquire_back_buffer calls that reach the presentation engine, per context
MaxFrames == 5
\* largest width / height the platform reports or the caller hints
MaxDim == 2
\* a chain may hold up to this many images more than the requested minimum
ExtraImages == 1
\* largest minImageCount / maxImageCount a capability report carries
MaxImageCount == 3

(***************************************************************************)
(* Program constants.                                                      *)
(***************************************************************************)
\* VK_NULL_HANDLE / nullptr
VK_NULL_HANDLE == 0
\* (uint32_t)-1, the "undefined" extent component: the largest value of the
\* type.  TLC's integers end at 2^31 - 1, which stands for it here; like
\* 0xFFFFFFFF it is above every extent a platform or a caller supplies.
UINT32_UNDEFINED == 2147483647

BACK_BUFFER_INIT == "BACK_BUFFER_INIT"
BACK_BUFFER_PREPARE == "BACK_BUFFER_PREPARE"
BACK_BUFFER_IN_SWAPCHAIN == "BACK_BUFFER_IN_SWAPCHAIN"
BACK_BUFFER_CANCELED == "BACK_BUFFER_CANCELED"

VK_SUCCESS == "VK_SUCCESS"
VK_ERROR_OUT_OF_DATE_KHR == "VK_ERROR_OUT_OF_DATE_KHR"
VK_ERROR_DEVICE_LOST == "VK_ERROR_DEVICE_LOST"

VK_PRESENT_MODE_IMMEDIATE_KHR == "VK_PRESENT_MODE_IMMEDIATE_KHR"
VK_PRESENT_MODE_MAILBOX_KHR == "VK_PRESENT_MODE_MAILBOX_KHR"
VK_PRESENT_MODE_FIFO_KHR == "VK_PRESENT_MODE_FIFO_KHR"

VK_SHARING_MODE_EXCLUSIVE == "VK_SHARING_MODE_EXCLUSIVE"
VK_SHARING_MODE_CONCURRENT == "VK_SHARING_MODE_CONCURRENT"

VARIABLES
    settings_,            \* back_buffer_count, no_present, vsync (fixed per run)
    queue_families,       \* ctx_.frameProcessor_queue_family, ctx_.present_queue_family
    dev,                  \* ctx_.dev: VK_NULL_HANDLE or 1
    backBuffers_,         \* ctx_.backBuffers_: sequence of BackBuffer records
    acquireBuffers_,      \* ctx_.acquireBuffers_: FIFO of AcquireBuffer identities
    fences,               \* AcquireBuffer::fence_ of every token: signaled or not
    semaphores,           \* AcquireBuffer::semaphore_ and BackBuffer::renderSemaphore_
    deletedTokens,        \* how many times each AcquireBuffer of the context was deleted
    currentBackBuffer_,   \* ctx_.currentBackBuffer_
    acquiredFrameId,      \* ctx_.acquiredFrameId
    swapchain,            \* ctx_.swapchain: VK_NULL_HANDLE or 1 (a chain)
    surface,              \* ctx_.surface: VK_NULL_HANDLE or 1
    extent,               \* ctx_.extent
    chainImages,          \* presentation engine: number of images of the chain
    acquiredImages,       \* presentation engine: images the application holds
    surfaceOutOfDate,     \* presentation engine: surface incompatible with chain
    caps,                 \* platform: what the surface capability queries report
    consumerAttached,     \* frame processor: between attach_swapchain and detach_swapchain
    status,               \* "running", "fatal" or "hung"
    last                  \* the most recent Shell operation: name, inputs, external calls

vars == <<settings_, queue_families, dev, backBuffers_, acquireBuffers_, fences,
          semaphores, deletedTokens,
          currentBackBuffer_, acquiredFrameId, swapchain, surface, extent,
          chainImages, acquiredImages, surfaceOutOfDate, caps, consumerAttached,
          status, last>>

ctxVars == <<dev, backBuffers_, acquireBuffers_, currentBackBuffer_,
             acquiredFrameId, swapchain, surface, extent>>

wsiVars == <<chainImages, acquiredImages, surfaceOutOfDate>>

(***************************************************************************)
(* Small helpers.                                                          *)
(***************************************************************************)
Range(s) == {s[i] : i \in 1..Len(s)}

Contains(s, x) == \E i \in 1..Len(s) : s[i] = x

Count(s, x) == Cardinality({i \in 1..Len(s) : s[i] = x})

\* position of the first x in s, 0 when absent
IndexOf(s, x) ==
    IF Contains(s, x) THEN CHOOSE i \in 1..Len(s) : s[i] = x /\ \A j \in 1..(i-1) : s[j] # x
    ELSE 0

Extent2D(w, h) == [width |-> w, height |-> h]

UndefinedExtent == Extent2D(UINT32_UNDEFINED, UINT32_UNDEFINED)

NoInfo ==
    [minImageCount |-> 0, imageExtent |-> Extent2D(0, 0), presentMode |-> "",
     imageSharingMode |-> "", queueFamilyIndices |-> <<>>, oldSwapchain |-> VK_NULL_HANDLE]

\* the record of an operation that carries no resize inputs
Op(name, calls) ==
    [op |-> name, calls |-> calls, width_hint |-> 0, height_hint |-> 0,
     info |-> NoInfo, result |-> VK_SUCCESS]

OpRes(name, calls, res) == [Op(name, calls) EXCEPT !.result = res]

(***************************************************************************)
(* vk::assert_success (VkCodecUtils/Helpers.h): anything but VK_SUCCESS    *)
(* throws std::runtime_error.                                              *)
(***************************************************************************)
assert_success(res) == res = VK_SUCCESS

(***************************************************************************)
(* BackBuffer (Shell.cpp 92-99 and the inline members of Shell.h).         *)
(***************************************************************************)
BackBuffer ==
    [imageIndex_ |-> 0, acquireBuffer_ |-> VK_NULL_HANDLE, state_ |-> BACK_BUFFER_INIT]

\* swaps in the token, marks the entry acquired; the caller gets the old token
SetAcquireBuffer(back, imageIndex, acquireBuffer) ==
    [back EXCEPT !.imageIndex_ = imageIndex,
                 !.acquireBuffer_ = acquireBuffer,
                 !.state_ = BACK_BUFFER_PREPARE]

GetAcquireSemaphore(back) == back.acquireBuffer_

isInPrepareState(back) == back.state_ = BACK_BUFFER_PREPARE

setBufferInSwapchain(back) == [back EXCEPT !.state_ = BACK_BUFFER_IN_SWAPCHAIN]

setBufferCanceled(back) == [back EXCEPT !.state_ = BACK_BUFFER_CANCELED]

\* a SetAcquireBuffer that takes a token whatever the state of the BackBuffer
SetAcquireBuffer_precondition_unchecked(back) == TRUE

\* the defensive check of SetAcquireBuffer: the BackBuffer must have been
\* presented since it was last acquired
SetAcquireBuffer_precondition(back) == ~isInPrepareState(back)

\* ctx_.backBuffers_[ctx_.currentBackBuffer_] (0-based index into a 1-based sequence)
GetCurrentBackBuffer == backBuffers_[currentBackBuffer_ + 1]

(***************************************************************************)
(* Shell::create_back_buffers (445-465).                                   *)
(***************************************************************************)
\* const int count = settings_.back_buffer_count + 1;
BackBufferCount(back_buffer_count) == back_buffer_count + 1

\* a pool with one token per registry entry and none to spare
AcquireBufferCount_no_spare(count) == count

\* for (int i = 0; i < (count + 1); i++) push(new AcquireBuffer)
AcquireBufferCount(count) == count + 1

create_back_buffers_registry(count) == [i \in 1..count |-> BackBuffer]

create_back_buffers_pool(count) == [i \in 1..AcquireBufferCount(count) |-> i]

\* 77-90 AcquireBuffer::Create: the fence of a new token is created without
\* VK_FENCE_CREATE_SIGNALED_BIT; fences[t] is TRUE while the fence of token t
\* is signaled
create_back_buffers_fences(count) == [i \in 1..AcquireBufferCount(count) |-> FALSE]

\* 81-84 AcquireBuffer::Create and 101-108 BackBuffer::Create: one binary
\* semaphore per token (the acquire semaphore of the BackBuffer that holds
\* it) and one render semaphore per BackBuffer, all created unsignaled.
\* acquire[t] and render[i] are TRUE while the semaphore is signaled;
\* misused records a wait on an unsignaled semaphore or a signal of a
\* signaled one
create_back_buffers_semaphores(count) ==
    [acquire |-> [i \in 1..AcquireBufferCount(count) |-> FALSE],
     render |-> [i \in 1..count |-> FALSE],
     misused |-> FALSE]

\* 64-75, 110-121: the destructors destroy the semaphores
destroy_back_buffers_semaphores(s) ==
    [acquire |-> <<>>, render |-> <<>>, misused |-> s.misused]

\* a semaphore signal operation (626-627 the engine, 690 the fake present);
\* a null handle (no token attached) is no semaphore to signal
semaphore_signal(s, kind, k) ==
    IF k \in DOMAIN s[kind]
    THEN [s EXCEPT ![kind] = [@ EXCEPT ![k] = TRUE],
                   !.misused = @ \/ s[kind][k]]
    ELSE [s EXCEPT !.misused = TRUE]

\* a semaphore wait operation (662 the present, 688 the fake present);
\* a null handle is no semaphore to wait on
semaphore_wait(s, kind, k) ==
    IF k \in DOMAIN s[kind]
    THEN [s EXCEPT ![kind] = [@ EXCEPT ![k] = FALSE],
                   !.misused = @ \/ ~s[kind][k]]
    ELSE [s EXCEPT !.misused = TRUE]

\* a teardown that deletes the queued tokens only
destroy_back_buffers_deleted_pool_only(registry, pool, deleted) ==
    [t \in DOMAIN deleted |-> deleted[t] + Count(pool, t)]

\* 467-478 with 110-121: clear() runs ~BackBuffer on every entry, which deletes
\* the token attached to it (119-120); the loop then deletes every token
\* left in the queue (470-475)
destroy_back_buffers_deleted(registry, pool, deleted) ==
    LET attached == SelectSeq(registry, LAMBDA b : b.acquireBuffer_ # VK_NULL_HANDLE)
        tokens == [i \in 1..Len(attached) |-> attached[i].acquireBuffer_] \o pool
    IN [t \in DOMAIN deleted |-> deleted[t] + Count(tokens, t)]

\* 445-465: the tokens of a new context, none deleted
create_back_buffers_deleted(count) == [i \in 1..AcquireBufferCount(count) |-> 0]

(***************************************************************************)
(* The platform.  A capability report (VkSurfaceCapabilitiesKHR plus the   *)
(* present modes of vk::get) is fixed per run except for currentExtent,    *)
(* which follows the window.                                               *)
(***************************************************************************)
Dims == 1..MaxDim

Caps(cur, mn, mx, minIC, maxIC, modes) ==
    [currentExtent |-> cur, minImageExtent |-> mn, maxImageExtent |-> mx,
     minImageCount |-> minIC, maxImageCount |-> maxIC, modes |-> modes]

\* a window of height 1 and width 1 or 2, on a platform whose chains hold
\* two or three images
Window(cur) ==
    Caps(cur, Extent2D(1, 1), Extent2D(2, 1), 2, 3, {VK_PRESENT_MODE_FIFO_KHR})

\* the platforms of the acquire/present runs: one that leaves the extent to
\* the chain, one that reports the window's
MainPlatforms == {Window(UndefinedExtent), Window(Extent2D(1, 1))}

MainHints == {<<1, 1>>, <<2, 1>>}

Settings ==
    [back_buffer_count : 1..MaxBackBufferCount, no_present : BOOLEAN, vsync : BOOLEAN]

(***************************************************************************)
(* Initial state: a constructed Shell (29-55); no context yet.             *)
(***************************************************************************)
InitShell ==
    /\ dev = VK_NULL_HANDLE
    /\ backBuffers_ = <<>>
    /\ acquireBuffers_ = <<>>
    /\ fences = <<>>
    /\ semaphores = [acquire |-> <<>>, render |-> <<>>, misused |-> FALSE]
    /\ deletedTokens = <<>>
    /\ currentBackBuffer_ = 0
    /\ acquiredFrameId = 0
    /\ swapchain = VK_NULL_HANDLE
    /\ surface = VK_NULL_HANDLE
    /\ extent = Extent2D(0, 0)
    /\ chainImages = 0
    /\ acquiredImages = {}
    /\ surfaceOutOfDate = FALSE
    /\ consumerAttached = FALSE
    /\ status = "running"
    /\ last = Op("Shell", <<>>)

Init ==
    /\ settings_ \in {s \in Settings : s.vsync = FALSE}
    /\ queue_families = <<0, 0>>
    /\ caps \in MainPlatforms
    /\ InitShell

Running == status = "running"

Fatal(name, calls, res) ==
    /\ status' = "fatal"
    /\ last' = OpRes(name, calls, res)

(***************************************************************************)
(* Shell::create_swapchain (480-503).                                      *)
(***************************************************************************)
create_swapchain_calls == <<"create_surface", "vkGetPhysicalDeviceSurfaceSupportKHR">>

\* defer to resize_swapchain(): no chain, extent unknown
create_swapchain_extent == Extent2D(UINT32_UNDEFINED, UINT32_UNDEFINED)

(***************************************************************************)
(* Shell::destroy_swapchain (505-515).                                     *)
(***************************************************************************)
\* a teardown that does not test the handle
destroy_swapchain_has_chain_untested(sc) == TRUE

\* 506: if (ctx_.swapchain != VK_NULL_HANDLE)
destroy_swapchain_has_chain(sc) == sc # VK_NULL_HANDLE

destroy_swapchain_calls(sc) ==
    (IF destroy_swapchain_has_chain(sc)
     THEN <<"detach_swapchain", "vkDestroySwapchainKHR">>
     ELSE <<>>) \o <<"vkDestroySurfaceKHR">>

\* the frame processor after the calls of one operation
AttachedAfter(calls, attached) ==
    IF \E i \in 1..Len(calls) : calls[i] \in {"attach_swapchain", "detach_swapchain"}
    THEN LET k == CHOOSE i \in 1..Len(calls) :
                    /\ calls[i] \in {"attach_swapchain", "detach_swapchain"}
                    /\ \A j \in (i+1)..Len(calls) :
                          calls[j] \notin {"attach_swapchain", "detach_swapchain"}
         IN calls[k] = "attach_swapchain"
    ELSE attached

NoChain ==
    /\ chainImages' = 0
    /\ acquiredImages' = {}
    /\ surfaceOutOfDate' = FALSE

(***************************************************************************)
(* Shell::create_context (364-382).                                        *)
(***************************************************************************)
CreateContext ==
    /\ Running
    /\ dev = VK_NULL_HANDLE
    /\ \E res \in {VK_SUCCESS, VK_ERROR_DEVICE_LOST} :
         IF ~assert_success(res)
         THEN /\ Fatal("create_context", <<"vkCreateDevice">>, res)
              /\ UNCHANGED <<settings_, queue_families, ctxVars, fences, semaphores, deletedTokens, wsiVars, caps,
                             consumerAttached>>
         ELSE LET count == BackBufferCount(settings_.back_buffer_count)
                  calls == <<"vkCreateDevice">> \o create_swapchain_calls
                              \o <<"attach_shell">>
              IN /\ dev' = 1
                 /\ acquiredFrameId' = 0
                 /\ backBuffers_' = create_back_buffers_registry(count)
                 /\ acquireBuffers_' = create_back_buffers_pool(count)
                 /\ fences' = create_back_buffers_fences(count)
                 /\ semaphores' = create_back_buffers_semaphores(count)
                 /\ deletedTokens' = create_back_buffers_deleted(count)
                 /\ currentBackBuffer_' = 0
                 /\ surface' = 1
                 /\ swapchain' = VK_NULL_HANDLE
                 /\ extent' = create_swapchain_extent
                 /\ NoChain
                 /\ consumerAttached' = AttachedAfter(calls, consumerAttached)
                 /\ last' = Op("create_context", calls)
                 /\ UNCHANGED <<settings_, queue_families, caps, status>>

(***************************************************************************)
(* Shell::create_swapchain called on a live context.                       *)
(***************************************************************************)
CreateSwapchain ==
    /\ Running
    /\ dev # VK_NULL_HANDLE
    /\ surface' = 1
    /\ swapchain' = VK_NULL_HANDLE
    /\ extent' = create_swapchain_extent
    /\ NoChain
    /\ last' = Op("create_swapchain", create_swapchain_calls)
    /\ UNCHANGED <<settings_, queue_families, dev, backBuffers_, acquireBuffers_, fences, semaphores, deletedTokens,
                   currentBackBuffer_, acquiredFrameId, caps, consumerAttached, status>>

(***************************************************************************)
(* Shell::destroy_swapchain called on a live context.                      *)
(***************************************************************************)
DestroySwapchain ==
    /\ Running
    /\ dev # VK_NULL_HANDLE
    /\ LET calls == destroy_swapchain_calls(swapchain)
       IN /\ consumerAttached' = AttachedAfter(calls, consumerAttached)
          /\ last' = Op("destroy_swapchain", calls)
    /\ swapchain' = VK_NULL_HANDLE
    /\ surface' = VK_NULL_HANDLE
    /\ NoChain
    /\ UNCHANGED <<settings_, queue_families, dev, backBuffers_, acquireBuffers_, fences, semaphores, deletedTokens,
                   currentBackBuffer_, acquiredFrameId, extent, caps, status>>

(***************************************************************************)
(* Shell::destroy_context (384-401) with destroy_back_buffers (467-478).   *)
(***************************************************************************)
DestroyContext ==
    /\ Running
    /\ IF dev = VK_NULL_HANDLE
       THEN /\ last' = Op("destroy_context", <<>>)
            /\ UNCHANGED <<settings_, queue_families, ctxVars, fences, semaphores, deletedTokens, wsiVars, caps,
                           consumerAttached, status>>
       ELSE LET calls == <<"vkDeviceWaitIdle">> \o destroy_swapchain_calls(swapchain)
                            \o <<"detach_shell", "vkDestroyDevice">>
            IN /\ consumerAttached' = AttachedAfter(calls, consumerAttached)
               /\ last' = Op("destroy_context", calls)
               /\ swapchain' = VK_NULL_HANDLE
               /\ surface' = VK_NULL_HANDLE
               /\ backBuffers_' = <<>>
               /\ acquireBuffers_' = <<>>
               /\ fences' = <<>>
               /\ semaphores' = destroy_back_buffers_semaphores(semaphores)
               /\ deletedTokens' =
                     destroy_back_buffers_deleted(backBuffers_, acquireBuffers_, deletedTokens)
               /\ currentBackBuffer_' = 0
               /\ dev' = VK_NULL_HANDLE
               /\ NoChain
               /\ UNCHANGED <<settings_, queue_families, acquiredFrameId, extent,
                              caps, status>>

(***************************************************************************)
(* Shell::resize_swapchain (517-604).                                      *)
(***************************************************************************)
\* a clamp without its upper bound
clamp_lower_only(v, lo, hi) == IF v < lo THEN lo ELSE v

\* 528-536: if (v < min) v = min; else if (v > max) v = max;
clamp(v, lo, hi) == IF v < lo THEN lo ELSE IF v > hi THEN hi ELSE v

\* 521-526: the platform's extent, or the hints when it is undefined
resize_hinted_extent(c, width_hint, height_hint) ==
    IF c.currentExtent.width = UINT32_UNDEFINED
    THEN Extent2D(width_hint, height_hint)
    ELSE c.currentExtent

\* 521-536
resize_extent(c, width_hint, height_hint) ==
    LET e == resize_hinted_extent(c, width_hint, height_hint)
    IN Extent2D(clamp(e.width, c.minImageExtent.width, c.maxImageExtent.width),
                clamp(e.height, c.minImageExtent.height, c.maxImageExtent.height))

\* a resize that never returns early
resize_is_noop_never(ctx_extent, e) == FALSE

\* 538: nothing to do when the extent is the context's
resize_is_noop(ctx_extent, e) ==
    ctx_extent.width = e.width /\ ctx_extent.height = e.height

\* 540-544
resize_image_count(back_buffer_count, c) ==
    clamp(back_buffer_count, c.minImageCount, c.maxImageCount)

\* a selection that reads the vsync flag the other way round
resize_present_mode_swapped(vsync, modes) ==
    IF ~vsync /\ VK_PRESENT_MODE_MAILBOX_KHR \in modes THEN VK_PRESENT_MODE_MAILBOX_KHR
    ELSE IF vsync /\ VK_PRESENT_MODE_IMMEDIATE_KHR \in modes
         THEN VK_PRESENT_MODE_IMMEDIATE_KHR
         ELSE VK_PRESENT_MODE_FIFO_KHR

\* 556-563: FIFO unless the mode the vsync flag asks for is listed
resize_present_mode(vsync, modes) ==
    IF vsync /\ VK_PRESENT_MODE_MAILBOX_KHR \in modes THEN VK_PRESENT_MODE_MAILBOX_KHR
    ELSE IF ~vsync /\ VK_PRESENT_MODE_IMMEDIATE_KHR \in modes
         THEN VK_PRESENT_MODE_IMMEDIATE_KHR
         ELSE VK_PRESENT_MODE_FIFO_KHR

\* a chain that is never shared between queue families
resize_sharing_mode_exclusive(families) == VK_SHARING_MODE_EXCLUSIVE

\* 575-584
resize_sharing_mode(families) ==
    IF families[1] # families[2] THEN VK_SHARING_MODE_CONCURRENT
    ELSE VK_SHARING_MODE_EXCLUSIVE

\* 575-581: pQueueFamilyIndices; left unset for exclusive sharing
resize_queue_family_indices(families) ==
    IF families[1] # families[2] THEN <<families[1], families[2]>> ELSE <<>>

\* 565-590
resize_swapchain_info(e, old) ==
    [minImageCount |-> resize_image_count(settings_.back_buffer_count, caps),
     imageExtent |-> e,
     presentMode |-> resize_present_mode(settings_.vsync, caps.modes),
     imageSharingMode |-> resize_sharing_mode(queue_families),
     queueFamilyIndices |-> resize_queue_family_indices(queue_families),
     oldSwapchain |-> old]

\* 595-603: the old chain goes once the new one exists
resize_teardown_calls(old) ==
    IF old # VK_NULL_HANDLE
    THEN <<"detach_swapchain", "vkDeviceWaitIdle", "vkDestroySwapchainKHR">>
    ELSE <<>>

\* the handle vkCreateSwapchainKHR writes: handles are told apart only as
\* null / not null
NewSwapchainHandle(old) == 1

\* the images the driver may give a chain: at least the requested minimum and
\* the platform's minimum, never above a nonzero platform maximum
ChainImageCounts(image_count, c) ==
    LET lo == IF image_count < c.minImageCount THEN c.minImageCount ELSE image_count
    IN {k \in lo..(lo + ExtraImages) : k = lo \/ c.maxImageCount = 0 \/ k <= c.maxImageCount}

ResizeOp(calls, w, h, info, res) ==
    [op |-> "resize_swapchain", calls |-> calls, width_hint |-> w, height_hint |-> h,
     info |-> info, result |-> res]

resize_swapchain(width_hint, height_hint, createRes, images) ==
    LET e == resize_extent(caps, width_hint, height_hint)
        info == resize_swapchain_info(e, swapchain)
        query == <<"vkGetPhysicalDeviceSurfaceCapabilitiesKHR">>
    IN IF resize_is_noop(extent, e)
       THEN /\ last' = ResizeOp(query, width_hint, height_hint, NoInfo, VK_SUCCESS)
            /\ UNCHANGED <<ctxVars, fences, semaphores, deletedTokens, wsiVars, consumerAttached, status>>
       ELSE IF ~assert_success(createRes)
       THEN /\ status' = "fatal"
            /\ last' = ResizeOp(query \o <<"vkCreateSwapchainKHR">>, width_hint,
                                height_hint, info, createRes)
            /\ UNCHANGED <<ctxVars, fences, semaphores, deletedTokens, wsiVars, consumerAttached>>
       ELSE LET calls == query \o <<"vkCreateSwapchainKHR">>
                           \o resize_teardown_calls(info.oldSwapchain)
                           \o <<"attach_swapchain">>
            IN /\ swapchain' = NewSwapchainHandle(swapchain)
               /\ extent' = e
               /\ chainImages' = images
               /\ acquiredImages' = {}
               /\ surfaceOutOfDate' = FALSE
               /\ consumerAttached' = AttachedAfter(calls, consumerAttached)
               /\ last' = ResizeOp(calls, width_hint, height_hint, info, VK_SUCCESS)
               /\ UNCHANGED <<dev, backBuffers_, acquireBuffers_, fences, semaphores, deletedTokens, currentBackBuffer_,
                              acquiredFrameId, surface, status>>

Resize(hints) ==
    /\ Running
    /\ dev # VK_NULL_HANDLE
    /\ surface # VK_NULL_HANDLE
    /\ \E hint \in hints, createRes \in {VK_SUCCESS, VK_ERROR_DEVICE_LOST},
          images \in ChainImageCounts(
                        resize_image_count(settings_.back_buffer_count, caps), caps) :
         resize_swapchain(hint[1], hint[2], createRes, images)
    /\ UNCHANGED <<settings_, queue_families, caps>>

ResizeSwapchain == Resize(MainHints)

(***************************************************************************)
(* The window changes size: the surface no longer matches a chain built    *)
(* for the old size, and every later acquire or present on that chain      *)
(* reports VK_ERROR_OUT_OF_DATE_KHR until a new chain is built.            *)
(***************************************************************************)
SurfaceResized ==
    /\ Running
    /\ caps.currentExtent.width # UINT32_UNDEFINED
    /\ \E w \in caps.minImageExtent.width..caps.maxImageExtent.width,
          h \in caps.minImageExtent.height..caps.maxImageExtent.height :
         /\ Extent2D(w, h) # caps.currentExtent
         /\ caps' = [caps EXCEPT !.currentExtent = Extent2D(w, h)]
    /\ surfaceOutOfDate' = (surfaceOutOfDate \/ swapchain # VK_NULL_HANDLE)
    /\ UNCHANGED <<settings_, queue_families, ctxVars, fences, semaphores, deletedTokens, chainImages, acquiredImages,
                   consumerAttached, status, last>>

(***************************************************************************)
(* The presentation engine's answers.                                      *)
(***************************************************************************)
\* images of the chain the application does not hold
AvailableImages == (0..(chainImages - 1)) \ acquiredImages

\* vkAcquireNextImageKHR with an unbounded timeout: <<result, image index>>;
\* no answer at all when the application holds every image
AcquireAnswers ==
    IF surfaceOutOfDate
    THEN {<<VK_ERROR_OUT_OF_DATE_KHR, 0>>}
    ELSE {<<VK_ERROR_DEVICE_LOST, 0>>} \cup {<<VK_SUCCESS, i>> : i \in AvailableImages}

\* vkQueuePresentKHR
PresentAnswers ==
    IF surfaceOutOfDate
    THEN {VK_ERROR_OUT_OF_DATE_KHR}
    ELSE {VK_SUCCESS, VK_ERROR_DEVICE_LOST}

(***************************************************************************)
(* Shell::acquire_back_buffer (617-644).                                   *)
(***************************************************************************)
\* an acquire that goes to the presentation engine every time
acquire_short_circuit_never(no_present, back) == FALSE

\* a short-circuit that reads the no_present flag the other way round
acquire_short_circuit_negated(no_present, back) ==
    ~no_present /\ GetAcquireSemaphore(back) # VK_NULL_HANDLE

\* 619: acquire just once when not presenting
acquire_short_circuit(no_present, back) ==
    no_present /\ GetAcquireSemaphore(back) # VK_NULL_HANDLE

\* 629
acquire_index_in_range(imageIndex, registry) == imageIndex < Len(registry)

\* 638: back.SetAcquireBuffer(imageIndex, acquireBuf) on ctx_.backBuffers_[imageIndex]
acquire_registry(registry, imageIndex, acquireBuf) ==
    [registry EXCEPT ![imageIndex + 1] =
        SetAcquireBuffer(registry[imageIndex + 1], imageIndex, acquireBuf)]

\* a pool that drops the displaced token instead of queueing it again
acquire_pool_dropping(pool, oldAcquireBuffer) == Tail(pool)

\* a pool that hands the front token out without removing it
acquire_pool_keeping(pool, oldAcquireBuffer) ==
    IF oldAcquireBuffer # VK_NULL_HANDLE
    THEN Append(pool, oldAcquireBuffer)
    ELSE pool

\* a pool that puts the displaced token at the front of the queue
acquire_pool_lifo(pool, oldAcquireBuffer) ==
    IF oldAcquireBuffer # VK_NULL_HANDLE
    THEN <<oldAcquireBuffer>> \o Tail(pool)
    ELSE Tail(pool)

\* 639-642: pop the token handed out, push the one displaced (if any)
acquire_pool(pool, oldAcquireBuffer) ==
    IF oldAcquireBuffer # VK_NULL_HANDLE
    THEN Append(Tail(pool), oldAcquireBuffer)
    ELSE Tail(pool)

\* 626-627: the presentation engine signals the fence it was given once the
\* image is available
fence_signal(f, acquireBuf) == [f EXCEPT ![acquireBuf] = TRUE]

\* an acquire that leaves the fence as the wait found it
fence_reset_missing(f, acquireBuf) == f

\* 635: vkResetFences
fence_reset(f, acquireBuf) == [f EXCEPT ![acquireBuf] = FALSE]

\* 626-635: signaled by the engine, waited for, reset
acquire_fences(f, acquireBuf) == fence_reset(fence_signal(f, acquireBuf), acquireBuf)

\* 626-627: the presentation engine signals the semaphore of the token
acquire_semaphores(s, acquireBuf) == semaphore_signal(s, "acquire", acquireBuf)

acquire_calls == <<"vkAcquireNextImageKHR">>

acquire_back_buffer(res, imageIndex) ==
    IF acquire_short_circuit(settings_.no_present, GetCurrentBackBuffer)
    THEN /\ last' = Op("acquire_back_buffer", <<>>)
         /\ UNCHANGED <<ctxVars, fences, semaphores, deletedTokens, wsiVars, status>>
    ELSE IF Len(acquireBuffers_) = 0
    THEN \* front() of an empty queue
         /\ Fatal("acquire_back_buffer", <<>>, VK_SUCCESS)
         /\ UNCHANGED <<ctxVars, fences, semaphores, deletedTokens, wsiVars>>
    ELSE IF ~assert_success(res)
    THEN /\ Fatal("acquire_back_buffer", acquire_calls, res)
         /\ UNCHANGED <<ctxVars, fences, semaphores, deletedTokens, wsiVars>>
    ELSE IF ~acquire_index_in_range(imageIndex, backBuffers_)
    THEN /\ Fatal("acquire_back_buffer", acquire_calls, res)
         /\ acquiredImages' = acquiredImages \cup {imageIndex}
         /\ fences' = fence_signal(fences, Head(acquireBuffers_))
         /\ semaphores' = acquire_semaphores(semaphores, Head(acquireBuffers_))
         /\ UNCHANGED deletedTokens
         /\ UNCHANGED <<ctxVars, chainImages, surfaceOutOfDate>>
    ELSE IF ~SetAcquireBuffer_precondition(backBuffers_[imageIndex + 1])
    THEN \* 638: the BackBuffer was acquired and not presented since
         /\ Fatal("acquire_back_buffer",
                  acquire_calls \o <<"vkWaitForFences", "vkResetFences">>, res)
         /\ acquiredImages' = acquiredImages \cup {imageIndex}
         /\ fences' = acquire_fences(fences, Head(acquireBuffers_))
         /\ semaphores' = acquire_semaphores(semaphores, Head(acquireBuffers_))
         /\ UNCHANGED deletedTokens
         /\ UNCHANGED <<ctxVars, chainImages, surfaceOutOfDate>>
    ELSE LET acquireBuf == Head(acquireBuffers_)
             oldAcquireBuffer == backBuffers_[imageIndex + 1].acquireBuffer_
         IN /\ currentBackBuffer_' = imageIndex
            /\ backBuffers_' = acquire_registry(backBuffers_, imageIndex, acquireBuf)
            /\ acquireBuffers_' = acquire_pool(acquireBuffers_, oldAcquireBuffer)
            /\ fences' = acquire_fences(fences, acquireBuf)
            /\ semaphores' = acquire_semaphores(semaphores, acquireBuf)
            /\ UNCHANGED deletedTokens
            /\ acquiredFrameId' = acquiredFrameId + 1
            /\ acquiredImages' = acquiredImages \cup {imageIndex}
            /\ last' = Op("acquire_back_buffer",
                          acquire_calls \o <<"vkWaitForFences", "vkResetFences">>)
            /\ UNCHANGED <<dev, swapchain, surface, extent, chainImages,
                           surfaceOutOfDate, status>>

AcquireBackBuffer ==
    /\ Running
    /\ dev # VK_NULL_HANDLE
    /\ \/ /\ acquire_short_circuit(settings_.no_present, GetCurrentBackBuffer)
          /\ acquire_back_buffer(VK_SUCCESS, 0)
       \/ /\ ~acquire_short_circuit(settings_.no_present, GetCurrentBackBuffer)
          /\ swapchain # VK_NULL_HANDLE
          /\ acquiredFrameId < MaxFrames
          /\ IF ~surfaceOutOfDate /\ AvailableImages = {}
             THEN \* the engine has no image to give and the wait has no timeout
                  /\ status' = "hung"
                  /\ last' = Op("acquire_back_buffer", acquire_calls)
                  /\ UNCHANGED <<ctxVars, fences, semaphores, deletedTokens, wsiVars>>
             ELSE \E a \in AcquireAnswers : acquire_back_buffer(a[1], a[2])
    /\ UNCHANGED <<settings_, queue_families, caps, consumerAttached>>

(***************************************************************************)
(* Shell::present_back_buffer (646-675) and Shell::fake_present (677-693). *)
(***************************************************************************)
\* a present that does not look at the state of the buffer
present_precondition_unchecked(back) == TRUE

\* a present that only refuses a BackBuffer that was never acquired
present_precondition_not_init(back) == back.state_ # BACK_BUFFER_INIT

\* 648, 679
present_precondition(back) == isInPrepareState(back)

\* a present that treats every result alike
present_back_state_ignoring_result(back, res) == setBufferInSwapchain(back)

\* 668-674: canceled when the surface is out of date, in the swapchain otherwise
present_back_state(back, res) ==
    IF res = VK_ERROR_OUT_OF_DATE_KHR
    THEN setBufferCanceled(back)
    ELSE setBufferInSwapchain(back)

\* a present that always goes to the presentation engine
present_is_fake_never(no_present) == FALSE

\* 653: headless mode submits the fake present instead
present_is_fake(no_present) == no_present

\* a present that submits before it calls the frame hook
present_calls_hook_last(fake) ==
    <<IF fake THEN "vkQueueSubmit" ELSE "vkQueuePresentKHR">> \o <<"on_frame">>

\* 651-667, 692: the frame hook, then the submission of the mode
present_calls(fake) ==
    <<"on_frame">> \o <<IF fake THEN "vkQueueSubmit" ELSE "vkQueuePresentKHR">>

\* 651: the per-frame work of the frame processor waits once on the acquire
\* semaphore of the current BackBuffer and signals once its render semaphore
on_frame_semaphores(s, back, slot) ==
    semaphore_signal(semaphore_wait(s, "acquire", back.acquireBuffer_), "render", slot)

\* a fake present that waits and signals nothing
fake_present_semaphores_none(s, back, slot) == s

\* 683-692: the submission waits on the render semaphore of the current
\* BackBuffer and signals its acquire semaphore
fake_present_semaphores(s, back, slot) ==
    semaphore_signal(semaphore_wait(s, "render", slot), "acquire", back.acquireBuffer_)

\* 658-667: the present waits on the render semaphore of the BackBuffer
present_semaphores(s, back, slot) == semaphore_wait(s, "render", slot)

present_back_buffer(res) ==
    LET back == GetCurrentBackBuffer
        slot == currentBackBuffer_ + 1
        framed == on_frame_semaphores(semaphores, back, slot)
    IN IF ~present_precondition(back)
       THEN /\ Fatal("present_back_buffer", <<>>, VK_SUCCESS)
            /\ UNCHANGED <<ctxVars, fences, semaphores, deletedTokens, wsiVars>>
       ELSE IF present_is_fake(settings_.no_present)
       THEN IF ~assert_success(res)
            THEN /\ Fatal("present_back_buffer", present_calls(TRUE), res)
                 /\ semaphores' = framed
                 /\ UNCHANGED <<ctxVars, fences, deletedTokens, wsiVars>>
            ELSE /\ last' = Op("present_back_buffer", present_calls(TRUE))
                 /\ semaphores' = fake_present_semaphores(framed, back, slot)
                 /\ UNCHANGED <<ctxVars, fences, deletedTokens, wsiVars, status>>
       ELSE /\ backBuffers_' =
                  [backBuffers_ EXCEPT ![currentBackBuffer_ + 1] =
                      present_back_state(back, res)]
            /\ acquiredImages' = acquiredImages \ {back.imageIndex_}
            /\ last' = OpRes("present_back_buffer", present_calls(FALSE), res)
            /\ semaphores' = present_semaphores(framed, back, slot)
            /\ UNCHANGED <<dev, acquireBuffers_, fences, deletedTokens, currentBackBuffer_, acquiredFrameId,
                           swapchain, surface, extent, chainImages, surfaceOutOfDate,
                           status>>

PresentBackBuffer ==
    /\ Running
    /\ dev # VK_NULL_HANDLE
    /\ \/ /\ present_is_fake(settings_.no_present) \/ ~present_precondition(GetCurrentBackBuffer)
          /\ \E res \in {VK_SUCCESS, VK_ERROR_DEVICE_LOST} : present_back_buffer(res)
       \/ /\ ~present_is_fake(settings_.no_present)
          /\ present_precondition(GetCurrentBackBuffer)
          /\ swapchain # VK_NULL_HANDLE
          /\ \E res \in PresentAnswers : present_back_buffer(res)
    /\ UNCHANGED <<settings_, queue_families, caps, consumerAttached>>

(***************************************************************************)
(* The specification of the acquire / present engine.                      *)
(***************************************************************************)
Next ==
    \/ CreateContext
    \/ DestroyContext
    \/ ResizeSwapchain
    \/ SurfaceResized
    \/ AcquireBackBuffer
    \/ PresentBackBuffer

Spec == Init /\ [][Next]_vars

(***************************************************************************)
(* The specification of the swapchain lifecycle manager: create_swapchain, *)
(* resize_swapchain and destroy_swapchain in any order on a live context,  *)
(* over every capability report, hint, vsync flag and queue-family pair    *)
(* within the bounds.  A run varies one aspect of the configuration and    *)
(* keeps the others at the values of the acquire/present runs.             *)
(***************************************************************************)
Extents == {Extent2D(w, h) : w \in Dims, h \in Dims}

DefaultSettings == [back_buffer_count |-> 1, no_present |-> FALSE, vsync |-> FALSE]

\* every extent report: undefined or any size, any range with min <= max
ExtentConfigs ==
    {<<DefaultSettings, <<0, 0>>,
       Caps(cur, mn, mx, 2, 3, {VK_PRESENT_MODE_FIFO_KHR})>> :
       cur \in Extents \cup {UndefinedExtent},
       mn \in Extents,
       mx \in Extents}

ExtentRangeOk(c) ==
    /\ c.minImageExtent.width <= c.maxImageExtent.width
    /\ c.minImageExtent.height <= c.maxImageExtent.height

\* every image-count report; maxImageCount 0 means "no upper limit"
CountConfigs ==
    {<<[DefaultSettings EXCEPT !.back_buffer_count = n], <<0, 0>>,
       Caps(UndefinedExtent, Extent2D(1, 1), Extent2D(2, 1), minIC, maxIC,
            {VK_PRESENT_MODE_FIFO_KHR})>> :
       n \in 1..MaxBackBufferCount,
       minIC \in 1..MaxImageCount,
       maxIC \in 0..MaxImageCount}

CountRangeOk(c) == c.maxImageCount = 0 \/ c.minImageCount <= c.maxImageCount

\* every list of present modes (FIFO is always supported), either vsync flag
ModeConfigs ==
    {<<[DefaultSettings EXCEPT !.vsync = v], <<0, 0>>,
       Caps(UndefinedExtent, Extent2D(1, 1), Extent2D(2, 1), 2, 3,
            m \cup {VK_PRESENT_MODE_FIFO_KHR})>> :
       v \in BOOLEAN,
       m \in SUBSET {VK_PRESENT_MODE_IMMEDIATE_KHR, VK_PRESENT_MODE_MAILBOX_KHR}}

\* the frame-processor and present queue families, equal or not
FamilyConfigs ==
    {<<DefaultSettings, <<f, p>>,
       Caps(UndefinedExtent, Extent2D(1, 1), Extent2D(2, 1), 2, 3,
            {VK_PRESENT_MODE_FIFO_KHR})>> :
       f \in 0..1, p \in 0..1}

LifecycleConfigs ==
    {c \in ExtentConfigs \cup CountConfigs \cup ModeConfigs \cup FamilyConfigs :
        ExtentRangeOk(c[3]) /\ CountRangeOk(c[3])}

LifecycleHints == {<<w, h>> : w \in Dims, h \in Dims}

InitLifecycle ==
    /\ \E c \in LifecycleConfigs :
         /\ settings_ = c[1]
         /\ queue_families = c[2]
         /\ caps = c[3]
    /\ InitShell

ResizeSwapchainAnyHint == Resize(LifecycleHints)

NextLifecycle ==
    \/ CreateContext
    \/ DestroyContext
    \/ CreateSwapchain
    \/ DestroySwapchain
    \/ ResizeSwapchainAnyHint
    \/ SurfaceResized

SpecLifecycle == InitLifecycle /\ [][NextLifecycle]_vars

(***************************************************************************)
(* The specification of Scenario A: back_buffer_count 2, real             *)
(* presentation, every acquire_back_buffer followed by its                 *)
(* present_back_buffer, resizes only between two cycles.                   *)
(***************************************************************************)
InitScenarioA ==
    /\ settings_ = [back_buffer_count |-> 2, no_present |-> FALSE, vsync |-> FALSE]
    /\ queue_families = <<0, 0>>
    /\ caps = Window(UndefinedExtent)
    /\ InitShell

CycleResize == last.op # "acquire_back_buffer" /\ ResizeSwapchain

CycleAcquire == last.op # "acquire_back_buffer" /\ AcquireBackBuffer

CyclePresent == last.op = "acquire_back_buffer" /\ PresentBackBuffer

NextScenarioA ==
    \/ CreateContext
    \/ CycleResize
    \/ CycleAcquire
    \/ CyclePresent

SpecScenarioA == InitScenarioA /\ [][NextScenarioA]_vars

(***************************************************************************)
(* Vocabulary of the properties.                                           *)
(***************************************************************************)
\* this step is the Shell operation `name` (the platform's steps change caps)
StepOf(name) == caps' = caps /\ last'.op = name

Called(l, fn) == Contains(l.calls, fn)

ContextLive == dev # VK_NULL_HANDLE

\* registry entries holding a token
Holders == {i \in 1..Len(backBuffers_) : backBuffers_[i].acquireBuffer_ # VK_NULL_HANDLE}

\* v brought into [lo, hi]
Within(v, lo, hi) ==
    CHOOSE r \in {v, lo, hi} :
        /\ (v < lo => r = lo)
        /\ (v > hi /\ v >= lo => r = hi)
        /\ (v >= lo /\ v <= hi => r = v)

\* the extent a resize with these hints has to arrive at
ExpectedExtent(c, w, h) ==
    LET bw == IF c.currentExtent = UndefinedExtent THEN w ELSE c.currentExtent.width
        bh == IF c.currentExtent = UndefinedExtent THEN h ELSE c.currentExtent.height
    IN Extent2D(Within(bw, c.minImageExtent.width, c.maxImageExtent.width),
                Within(bh, c.minImageExtent.height, c.maxImageExtent.height))

(***************************************************************************)
(* Properties of the AcquireBuffer tokens and the BackBuffer states.       *)
(***************************************************************************)
\* C1: while the context is live no AcquireBuffer token is at once in the pool
\* queue and attached to a BackBuffer, no token is attached to two
\* BackBuffers, and the tokens in the pool plus the tokens attached number
\* back_buffer_count + 2, the size of the pool when it was created.
TokenConservation ==
    ContextLive =>
        /\ \A i \in Holders : ~Contains(acquireBuffers_, backBuffers_[i].acquireBuffer_)
        /\ \A i, j \in Holders :
               i # j => backBuffers_[i].acquireBuffer_ # backBuffers_[j].acquireBuffer_
        /\ Len(acquireBuffers_) + Cardinality(Holders) = settings_.back_buffer_count + 2

\* two BackBuffers hold tokens and a displaced token has been queued again
\* behind a token that was never handed out
TokenRecycled ==
    /\ Running
    /\ ContextLive
    /\ Cardinality(Holders) = 2
    /\ acquiredFrameId >= 3
    /\ \E k \in 1..(Len(acquireBuffers_) - 1) : acquireBuffers_[k + 1] < acquireBuffers_[k]

StateOrder ==
    {<<BACK_BUFFER_INIT, BACK_BUFFER_PREPARE>>,
     <<BACK_BUFFER_PREPARE, BACK_BUFFER_IN_SWAPCHAIN>>,
     <<BACK_BUFFER_PREPARE, BACK_BUFFER_CANCELED>>,
     <<BACK_BUFFER_IN_SWAPCHAIN, BACK_BUFFER_PREPARE>>,
     <<BACK_BUFFER_CANCELED, BACK_BUFFER_PREPARE>>}

\* C2: a BackBuffer of the registry changes state only along INIT -> PREPARE,
\* PREPARE -> IN_SWAPCHAIN, PREPARE -> CANCELED, IN_SWAPCHAIN -> PREPARE and
\* CANCELED -> PREPARE; nothing else happens to it between the creation and the
\* destruction of the registry.
StateOrdering ==
    [][(Len(backBuffers_) > 0 /\ Len(backBuffers_') = Len(backBuffers_)) =>
          \A i \in 1..Len(backBuffers_) :
              \/ backBuffers_'[i].state_ = backBuffers_[i].state_
              \/ <<backBuffers_[i].state_, backBuffers_'[i].state_>> \in StateOrder]_vars

\* one BackBuffer presented, one canceled and re-acquired after it, one in
\* preparation: every arrow of the order has been taken
EveryStateTaken ==
    /\ Running
    /\ \E i, j, k \in 1..Len(backBuffers_) :
          /\ backBuffers_[i].state_ = BACK_BUFFER_IN_SWAPCHAIN
          /\ backBuffers_[j].state_ = BACK_BUFFER_CANCELED
          /\ backBuffers_[k].state_ = BACK_BUFFER_PREPARE
    /\ acquiredFrameId >= 4

\* C3: when create_context has returned, the registry holds
\* back_buffer_count + 1 BackBuffers, each in state INIT and without a token,
\* and the pool queue holds back_buffer_count + 2 distinct tokens; for
\* back_buffer_count 2 that is 3 BackBuffers and 4 tokens.
RegistryAndPoolSizes ==
    (last.op = "create_context" /\ Running) =>
        /\ Len(backBuffers_) = settings_.back_buffer_count + 1
        /\ \A i \in 1..Len(backBuffers_) :
               /\ backBuffers_[i].state_ = BACK_BUFFER_INIT
               /\ backBuffers_[i].acquireBuffer_ = VK_NULL_HANDLE
        /\ Len(acquireBuffers_) = settings_.back_buffer_count + 2
        /\ Cardinality(Range(acquireBuffers_)) = settings_.back_buffer_count + 2
        /\ settings_.back_buffer_count = 2 =>
               Len(backBuffers_) = 3 /\ Len(acquireBuffers_) = 4

\* create_context has returned for back_buffer_count 2
ContextCreatedForTwo ==
    /\ last.op = "create_context"
    /\ Running
    /\ ContextLive
    /\ settings_.back_buffer_count = 2
    /\ Len(backBuffers_) = 3
    /\ Len(acquireBuffers_) = 4

\* C3 as stated: back_buffer_count 2 gives 3 BackBuffers and 5 tokens
RegistryThreePoolFive ==
    (last.op = "create_context" /\ Running /\ settings_.back_buffer_count = 2) =>
        Len(backBuffers_) = 3 /\ Len(acquireBuffers_) = 5

\* k acquire_back_buffer / present_back_buffer cycles are complete
CyclesDone(k) ==
    /\ Running
    /\ ContextLive
    /\ acquiredFrameId = k
    /\ last.op \in {"present_back_buffer", "resize_swapchain"}

\* C4: with back_buffer_count 2 the pool is created with 4 tokens, and after
\* 5 complete acquire_back_buffer / present_back_buffer cycles the pool queue
\* holds 4 minus the number of BackBuffers that keep a token, which is 1, 2
\* or 3 tokens: a presented BackBuffer keeps its token until it is acquired
\* again, so the pool does not return to its initial size.
PoolAfterFiveCycles ==
    CyclesDone(5) =>
        /\ Cardinality(Holders) \in 1..3
        /\ Len(acquireBuffers_) = 4 - Cardinality(Holders)

\* five cycles over three different images: one token left in the pool
FiveCyclesThreeHolders ==
    /\ CyclesDone(5)
    /\ Cardinality(Holders) = 3
    /\ Len(acquireBuffers_) = 1

\* C4 as stated: after 5 complete cycles 5 tokens are available in the pool
PoolFiveAfterFiveCycles == CyclesDone(5) => Len(acquireBuffers_) = 5

(***************************************************************************)
(* Properties of the surface going out of date.                            *)
(***************************************************************************)
\* a present_back_buffer that reached vkQueuePresentKHR
RealPresentStep == StepOf("present_back_buffer") /\ Called(last', "vkQueuePresentKHR")

\* a resize_swapchain that built a new chain
RebuildStep ==
    /\ StepOf("resize_swapchain")
    /\ Called(last', "vkCreateSwapchainKHR")
    /\ last'.result = VK_SUCCESS

\* C5: when vkQueuePresentKHR reports the surface out of date, the current
\* BackBuffer becomes CANCELED, not IN_SWAPCHAIN, and the chain stays out of
\* date; while it is out of date no acquire_back_buffer selects a BackBuffer,
\* attaches a token or counts a frame; and only a resize_swapchain that built
\* a new chain (or the teardown of the whole context) ends that condition.
OutOfDateOnPresent ==
    /\ [][(RealPresentStep /\ last'.result = VK_ERROR_OUT_OF_DATE_KHR) =>
             /\ backBuffers_'[currentBackBuffer_ + 1].state_ = BACK_BUFFER_CANCELED
             /\ surfaceOutOfDate']_vars
    /\ [][(surfaceOutOfDate /\ StepOf("acquire_back_buffer")) =>
             /\ acquiredFrameId' = acquiredFrameId
             /\ currentBackBuffer_' = currentBackBuffer_
             /\ backBuffers_' = backBuffers_
             /\ acquireBuffers_' = acquireBuffers_]_vars
    /\ [][(surfaceOutOfDate /\ ~surfaceOutOfDate') =>
             RebuildStep \/ StepOf("destroy_context")]_vars

\* a present was canceled, the chain was rebuilt and an image was acquired
\* from the new chain
AcquiredAfterRebuild ==
    /\ Running
    /\ ~surfaceOutOfDate
    /\ \E i \in 1..Len(backBuffers_) : backBuffers_[i].state_ = BACK_BUFFER_CANCELED
    /\ last.op = "acquire_back_buffer"
    /\ Called(last, "vkWaitForFences")
    /\ GetCurrentBackBuffer.state_ = BACK_BUFFER_PREPARE

\* C6 as stated: an acquire_back_buffer whose vkAcquireNextImageKHR answers
\* VK_ERROR_OUT_OF_DATE_KHR does not end the run, attaches no token and counts
\* no frame; every other failure of the acquire ends the run.
OutOfDateOnAcquireRecoverable ==
    /\ (last.op = "acquire_back_buffer" /\ last.result = VK_ERROR_OUT_OF_DATE_KHR) =>
           status # "fatal"
    /\ (last.op = "acquire_back_buffer"
            /\ last.result \notin {VK_SUCCESS, VK_ERROR_OUT_OF_DATE_KHR}) =>
           status = "fatal"

(***************************************************************************)
(* Properties of presentation being disabled.                              *)
(***************************************************************************)
\* C7: with no_present set no acquire_back_buffer and no present_back_buffer
\* waits for an image that never comes, and once the first acquire has
\* returned, every acquire_back_buffer and present_back_buffer leaves the
\* current BackBuffer index, the registry and the pool as the first acquire
\* left them.
HeadlessEquivalence ==
    /\ [](settings_.no_present => status # "hung")
    /\ [][(settings_.no_present /\ ContextLive /\ acquiredFrameId >= 1
              /\ (StepOf("acquire_back_buffer") \/ StepOf("present_back_buffer"))) =>
             /\ currentBackBuffer_' = currentBackBuffer_
             /\ acquiredFrameId' = acquiredFrameId
             /\ backBuffers_' = backBuffers_
             /\ acquireBuffers_' = acquireBuffers_
             /\ acquiredImages' = acquiredImages]_vars

\* with no_present set, an acquire_back_buffer after the first one has
\* returned without a call, the index still the one the first gave
HeadlessSecondAcquire ==
    /\ settings_.no_present
    /\ Running
    /\ acquiredFrameId = 1
    /\ currentBackBuffer_ = 1
    /\ last.op = "acquire_back_buffer"
    /\ last.calls = <<>>

(***************************************************************************)
(* Properties of the swapchain lifecycle manager.                          *)
(***************************************************************************)
\* C8: a destroy_swapchain that follows a destroy_swapchain, or that finds no
\* chain, calls neither detach_swapchain nor vkDestroySwapchainKHR, does not
\* end the run, and leaves the swapchain handle null, the surface handle null
\* and the rest of the context as it found it.
DestroySwapchainIdempotent ==
    [][(StepOf("destroy_swapchain")
           /\ (last.op = "destroy_swapchain" \/ swapchain = VK_NULL_HANDLE)) =>
          /\ ~Called(last', "detach_swapchain")
          /\ ~Called(last', "vkDestroySwapchainKHR")
          /\ status' = "running"
          /\ swapchain = VK_NULL_HANDLE /\ swapchain' = VK_NULL_HANDLE
          /\ surface' = VK_NULL_HANDLE
          /\ last.op = "destroy_swapchain" => ctxVars' = ctxVars
          /\ consumerAttached' = consumerAttached]_vars

\* a destroy_swapchain has found nothing to destroy after an earlier one took
\* down a chain that resize_swapchain had built (the extent is still that
\* chain's)
DestroyedTwice ==
    /\ Running
    /\ last.op = "destroy_swapchain"
    /\ last.calls = <<"vkDestroySurfaceKHR">>
    /\ swapchain = VK_NULL_HANDLE
    /\ surface = VK_NULL_HANDLE
    /\ ~consumerAttached
    /\ extent.width \in Dims

\* C9: a resize_swapchain whose extent, after the hints stand in for an
\* undefined platform extent and after clamping, is the context's extent
\* calls none of vkCreateSwapchainKHR, detach_swapchain, attach_swapchain and
\* vkDeviceWaitIdle, and leaves the swapchain handle and the extent unchanged.
ResizeNoOp ==
    [][(StepOf("resize_swapchain")
           /\ ExpectedExtent(caps, last'.width_hint, last'.height_hint) = extent) =>
          /\ ~Called(last', "vkCreateSwapchainKHR")
          /\ ~Called(last', "detach_swapchain")
          /\ ~Called(last', "attach_swapchain")
          /\ ~Called(last', "vkDeviceWaitIdle")
          /\ swapchain' = swapchain
          /\ extent' = extent
          /\ status' = "running"]_vars

\* a resize_swapchain has returned early on a live chain
ResizedToSameExtent ==
    /\ Running
    /\ last.op = "resize_swapchain"
    /\ last.calls = <<"vkGetPhysicalDeviceSurfaceCapabilitiesKHR">>
    /\ swapchain # VK_NULL_HANDLE
    /\ ExpectedExtent(caps, last.width_hint, last.height_hint) = extent

\* C10: the chain a resize_swapchain builds has the caller's width and height
\* hints as its extent when the platform reports an undefined current extent,
\* and the platform's current extent, whatever the hints, when that is
\* defined; in both cases each component is first brought into
\* [minImageExtent, maxImageExtent].
ResizeExtentResolution ==
    [][RebuildStep =>
          /\ extent' = ExpectedExtent(caps, last'.width_hint, last'.height_hint)
          /\ last'.info.imageExtent = extent'
          /\ caps.currentExtent # UndefinedExtent =>
                 \A w, h \in Dims : extent' = ExpectedExtent(caps, w, h)]_vars

\* a chain has been built from hints that had to be brought down to the
\* maximum extent, the platform's extent being undefined
BuiltFromClampedHints ==
    /\ Running
    /\ last.op = "resize_swapchain"
    /\ Called(last, "vkCreateSwapchainKHR")
    /\ caps.currentExtent = UndefinedExtent
    /\ last.width_hint > caps.maxImageExtent.width
    /\ extent.width = caps.maxImageExtent.width
    /\ swapchain # VK_NULL_HANDLE

\* a resize_swapchain that reached vkCreateSwapchainKHR
CreateChainStep == StepOf("resize_swapchain") /\ Called(last', "vkCreateSwapchainKHR")

\* C11: the create info resize_swapchain hands to vkCreateSwapchainKHR asks for
\* concurrent sharing and lists the frame-processor queue family and the
\* present queue family, each exactly once and nothing else, when the two
\* differ; it asks for exclusive sharing when they are the same family.
SharingMode ==
    [][CreateChainStep =>
          LET f == queue_families[1]
              p == queue_families[2]
              info == last'.info
          IN IF f # p
             THEN /\ info.imageSharingMode = VK_SHARING_MODE_CONCURRENT
                  /\ Len(info.queueFamilyIndices) = 2
                  /\ Count(info.queueFamilyIndices, f) = 1
                  /\ Count(info.queueFamilyIndices, p) = 1
             ELSE info.imageSharingMode = VK_SHARING_MODE_EXCLUSIVE]_vars

\* a chain has been built for a present queue family other than the
\* frame-processor queue family
BuiltForTwoFamilies ==
    /\ Running
    /\ last.op = "resize_swapchain"
    /\ Called(last, "vkCreateSwapchainKHR")
    /\ swapchain # VK_NULL_HANDLE
    /\ queue_families[1] # queue_families[2]
    /\ last.info.imageSharingMode = VK_SHARING_MODE_CONCURRENT
    /\ last.info.queueFamilyIndices = <<queue_families[1], queue_families[2]>>

(***************************************************************************)
(* Properties of present_back_buffer.                                      *)
(***************************************************************************)
\* C12: a present_back_buffer (with fake_present behind it when no_present is
\* set) gets as far as the frame callback only when the current BackBuffer is
\* in the prepare state; on a BackBuffer in state INIT, IN_SWAPCHAIN or
\* CANCELED it ends the run before on_frame and before any queue submission,
\* leaving the context untouched.
PresentPrecondition ==
    [][(StepOf("present_back_buffer") /\ ContextLive) =>
          IF GetCurrentBackBuffer.state_ = BACK_BUFFER_PREPARE
          THEN Called(last', "on_frame")
          ELSE /\ status' = "fatal"
               /\ last'.calls = <<>>
               /\ ctxVars' = ctxVars
               /\ wsiVars' = wsiVars]_vars

\* a BackBuffer already handed to the swapchain was presented again
PresentedTwice ==
    /\ status = "fatal"
    /\ last.op = "present_back_buffer"
    /\ last.calls = <<>>
    /\ ContextLive
    /\ GetCurrentBackBuffer.state_ = BACK_BUFFER_IN_SWAPCHAIN

(***************************************************************************)
(* Properties of the teardown of a chain.                                  *)
(***************************************************************************)
\* calls lists a, then b, then c
InOrder(calls, a, b, c) ==
    \E i, j, k \in 1..Len(calls) :
        /\ i < j /\ j < k
        /\ calls[i] = a /\ calls[j] = b /\ calls[k] = c

\* C13 as stated: a destroy_context and a resize_swapchain that destroy a
\* chain call detach_swapchain, then vkDeviceWaitIdle, then
\* vkDestroySwapchainKHR, and destroy_context calls vkDestroySurfaceKHR after
\* these.
TeardownOrder ==
    (last.op \in {"destroy_context", "resize_swapchain"}
        /\ Called(last, "vkDestroySwapchainKHR")) =>
        /\ InOrder(last.calls, "detach_swapchain", "vkDeviceWaitIdle",
                   "vkDestroySwapchainKHR")
        /\ last.op = "destroy_context" =>
               InOrder(last.calls, "vkDeviceWaitIdle", "vkDestroySwapchainKHR",
                       "vkDestroySurfaceKHR")

(***************************************************************************)
(* Properties of acquire_back_buffer.                                      *)
(***************************************************************************)
\* the image index vkAcquireNextImageKHR hands out in this step, if any
ImagesGiven == acquiredImages' \ acquiredImages

PoolNeverExhausted ==
    /\ ContextLive => Len(acquireBuffers_) >= 1
    /\ ~(last.op = "acquire_back_buffer" /\ status = "fatal"
            /\ ~Called(last, "vkAcquireNextImageKHR"))

\* every BackBuffer of the registry holds a token, the pool is down to its
\* last one, and acquire_back_buffer has run again since
PoolAtItsLowest ==
    /\ Running
    /\ ContextLive
    /\ Cardinality(Holders) = Len(backBuffers_)
    /\ Len(acquireBuffers_) = 1
    /\ acquiredFrameId > Len(backBuffers_)
    /\ last.op = "acquire_back_buffer"

\* C16: the fence of the token at the front of the pool is unsignaled whenever
\* acquire_back_buffer hands that token to vkAcquireNextImageKHR, at its first
\* use and at every later one; an acquire_back_buffer waits for that fence at
\* most once and resets it after the wait, so that when it returns no token
\* of the context has a signaled fence.
FenceDiscipline ==
    /\ [][(StepOf("acquire_back_buffer") /\ Called(last', "vkAcquireNextImageKHR")) =>
             /\ ~fences[Head(acquireBuffers_)]
             /\ Count(last'.calls, "vkWaitForFences") <= 1
             /\ Called(last', "vkWaitForFences") =>
                    InOrder(last'.calls, "vkAcquireNextImageKHR", "vkWaitForFences",
                            "vkResetFences")
             /\ status' = "running" => \A t \in DOMAIN fences' : ~fences'[t]]_vars
    /\ []((Running /\ ContextLive) => \A t \in DOMAIN fences : ~fences[t])

\* more images were acquired than the context has tokens: a token has been
\* handed to vkAcquireNextImageKHR a second time
TokenHandedOutAgain ==
    /\ Running
    /\ ContextLive
    /\ last.op = "acquire_back_buffer"
    /\ Called(last, "vkResetFences")
    /\ acquiredFrameId > Len(fences)
    /\ \A t \in DOMAIN fences : ~fences[t]

\* an acquire_back_buffer that attached a token
AcquiredStep ==
    /\ StepOf("acquire_back_buffer")
    /\ ContextLive
    /\ acquiredFrameId' = acquiredFrameId + 1

\* C17: an acquire_back_buffer that succeeds attaches to the BackBuffer it
\* selects the token that was at the head of the pool queue, takes that token
\* off the queue, keeps the other queued tokens in their order and puts the
\* token it displaced from the BackBuffer, if there was one, behind them all;
\* so a token that comes back waits behind every token queued at that time.
FifoRecycling ==
    [][AcquiredStep =>
          LET checkedOut == Head(acquireBuffers_)
              selected == currentBackBuffer_' + 1
              released == backBuffers_[selected].acquireBuffer_
              rest == [k \in 1..(Len(acquireBuffers_) - 1) |-> acquireBuffers_[k + 1]]
          IN /\ backBuffers_'[selected].acquireBuffer_ = checkedOut
             /\ ~Contains(acquireBuffers_', checkedOut)
             /\ \A k \in 1..Len(rest) : acquireBuffers_'[k] = rest[k]
             /\ IF released # VK_NULL_HANDLE
                THEN /\ Len(acquireBuffers_') = Len(rest) + 1
                     /\ acquireBuffers_'[Len(acquireBuffers_')] = released
                ELSE Len(acquireBuffers_') = Len(rest)]_vars

\* the first token handed out has come back and waits behind the one token
\* that was never handed out
FirstTokenBehindLast ==
    /\ Running
    /\ ContextLive
    /\ last.op = "acquire_back_buffer"
    /\ acquireBuffers_ = <<settings_.back_buffer_count + 2, 1>>
    /\ GetCurrentBackBuffer.acquireBuffer_ = settings_.back_buffer_count + 1

\* C18: a BackBuffer in the prepare state leaves it only in a
\* present_back_buffer that reached vkQueuePresentKHR, with presentation
\* enabled, as the current BackBuffer, and then for IN_SWAPCHAIN or CANCELED;
\* acquire_back_buffer, the fake present of the headless mode and
\* resize_swapchain leave every prepare-state BackBuffer in that state.
OnlyPresentLeavesPrepare ==
    [][Len(backBuffers_') = Len(backBuffers_) =>
          \A i \in 1..Len(backBuffers_) :
              (backBuffers_[i].state_ = BACK_BUFFER_PREPARE
                  /\ backBuffers_'[i].state_ # BACK_BUFFER_PREPARE) =>
                  /\ RealPresentStep
                  /\ ~settings_.no_present
                  /\ i = currentBackBuffer_ + 1
                  /\ backBuffers_'[i].state_
                         \in {BACK_BUFFER_IN_SWAPCHAIN, BACK_BUFFER_CANCELED}]_vars

\* with no_present set, the current BackBuffer is still in the prepare state
\* after its fake present
PreparedAfterFakePresent ==
    /\ Running
    /\ ContextLive
    /\ settings_.no_present
    /\ last.op = "present_back_buffer"
    /\ Called(last, "vkQueueSubmit")
    /\ GetCurrentBackBuffer.state_ = BACK_BUFFER_PREPARE

\* C19: a present_back_buffer on a current BackBuffer in the prepare state
\* calls on_frame exactly once, first, and after it makes the one submission
\* of its mode: vkQueuePresentKHR with presentation enabled, the vkQueueSubmit
\* of the fake present with no_present set.
FrameHookOrdering ==
    [][(StepOf("present_back_buffer") /\ ContextLive
           /\ GetCurrentBackBuffer.state_ = BACK_BUFFER_PREPARE) =>
          /\ Count(last'.calls, "on_frame") = 1
          /\ last'.calls[1] = "on_frame"
          /\ Len(last'.calls) = 2
          /\ last'.calls[2] =
                 (IF settings_.no_present THEN "vkQueueSubmit" ELSE "vkQueuePresentKHR")]_vars

\* a present with presentation enabled has called the frame hook and then
\* handed the image to the presentation engine
FramePresented ==
    /\ Running
    /\ ContextLive
    /\ ~settings_.no_present
    /\ last.op = "present_back_buffer"
    /\ last.calls = <<"on_frame", "vkQueuePresentKHR">>
    /\ last.result = VK_SUCCESS
    /\ GetCurrentBackBuffer.state_ = BACK_BUFFER_IN_SWAPCHAIN

\* C20 as stated: a present_back_buffer whose vkQueuePresentKHR fails with
\* anything but VK_ERROR_OUT_OF_DATE_KHR ends the run and does not mark the
\* current BackBuffer IN_SWAPCHAIN.
PresentFailureFatal ==
    (last.op = "present_back_buffer"
        /\ Called(last, "vkQueuePresentKHR")
        /\ last.result \notin {VK_SUCCESS, VK_ERROR_OUT_OF_DATE_KHR}) =>
        /\ status = "fatal"
        /\ GetCurrentBackBuffer.state_ # BACK_BUFFER_IN_SWAPCHAIN

(***************************************************************************)
(* Properties of the chain resize_swapchain asks for.                      *)
(***************************************************************************)
\* C21 as stated: every image index of a chain built by resize_swapchain is
\* below the size of the BackBuffer registry, whatever the platform reports,
\* and the bounds assertion of acquire_back_buffer never fails.
RegistryCoversImages ==
    /\ (ContextLive /\ swapchain # VK_NULL_HANDLE) =>
           \A i \in 0..(chainImages - 1) : i < Len(backBuffers_)
    /\ ~(status = "fatal" /\ last.op = "acquire_back_buffer"
            /\ \E i \in acquiredImages : i >= Len(backBuffers_))

\* C22 as stated: the minimum image count resize_swapchain asks
\* vkCreateSwapchainKHR for is never below caps.minImageCount and, on a
\* platform that has a maximum (maxImageCount is not 0), never above
\* caps.maxImageCount.
ImageCountClamped ==
    (last.op = "resize_swapchain" /\ Called(last, "vkCreateSwapchainKHR")) =>
        /\ last.info.minImageCount >= caps.minImageCount
        /\ caps.maxImageCount # 0 => last.info.minImageCount <= caps.maxImageCount

\* C23: the present mode resize_swapchain asks vkCreateSwapchainKHR for is
\* IMMEDIATE when vsync is off and the platform lists IMMEDIATE, MAILBOX when
\* vsync is on and the platform lists MAILBOX, and FIFO in every other case;
\* so it is FIFO or a mode the platform lists.
PresentModeSelection ==
    [][CreateChainStep =>
          LET mode == last'.info.presentMode
              immediate == ~settings_.vsync /\ VK_PRESENT_MODE_IMMEDIATE_KHR \in caps.modes
              mailbox == settings_.vsync /\ VK_PRESENT_MODE_MAILBOX_KHR \in caps.modes
          IN /\ immediate => mode = VK_PRESENT_MODE_IMMEDIATE_KHR
             /\ mailbox => mode = VK_PRESENT_MODE_MAILBOX_KHR
             /\ (~immediate /\ ~mailbox) => mode = VK_PRESENT_MODE_FIFO_KHR
             /\ mode \in caps.modes \cup {VK_PRESENT_MODE_FIFO_KHR}]_vars

\* with vsync on, a chain was built in MAILBOX mode on a platform that lists
\* IMMEDIATE as well
BuiltInMailboxMode ==
    /\ Running
    /\ settings_.vsync
    /\ last.op = "resize_swapchain"
    /\ Called(last, "vkCreateSwapchainKHR")
    /\ swapchain # VK_NULL_HANDLE
    /\ VK_PRESENT_MODE_IMMEDIATE_KHR \in caps.modes
    /\ last.info.presentMode = VK_PRESENT_MODE_MAILBOX_KHR

HeadlessSemaphoreAlternation ==
    /\ [](settings_.no_present => ~semaphores.misused)
    /\ []((settings_.no_present /\ ContextLive /\ Running) =>
            /\ \A i \in DOMAIN semaphores.render : ~semaphores.render[i]
            /\ \A t \in DOMAIN semaphores.acquire :
                 semaphores.acquire[t] <=>
                   \E i \in Holders : backBuffers_[i].acquireBuffer_ = t)
    /\ [][(StepOf("present_back_buffer") /\ ContextLive /\ settings_.no_present
              /\ status' = "running") =>
             LET back == GetCurrentBackBuffer
                 slot == currentBackBuffer_ + 1
             IN /\ semaphores.acquire[back.acquireBuffer_]
                /\ ~semaphores.render[slot]
                /\ semaphores' =
                     semaphore_signal(
                       semaphore_wait(
                         semaphore_signal(
                           semaphore_wait(semaphores, "acquire", back.acquireBuffer_),
                           "render", slot),
                         "render", slot),
                       "acquire", back.acquireBuffer_)
                /\ semaphores' = semaphores]_vars

FakePresentedAgain ==
    /\ Running /\ ContextLive /\ settings_.no_present
    /\ last.op = "present_back_buffer"
    /\ last.calls = <<"on_frame", "vkQueueSubmit">>
    /\ swapchain # VK_NULL_HANDLE /\ acquiredImages = {}
    /\ semaphores.acquire[GetCurrentBackBuffer.acquireBuffer_]
    /\ ~semaphores.render[currentBackBuffer_ + 1]
    /\ ~semaphores.misused

(***************************************************************************)
(* C26  Token destruction at teardown.  A token is deleted only by a       *)
(* destroy_context step (through destroy_back_buffers): acquire, present   *)
(* and resize steps delete none, and no token of a live context has been   *)
(* deleted.  A destroy_context step taken on a live context, whatever the  *)
(* tokens held by BackBuffers and the tokens queued in the pool at that    *)
(* point, deletes every token create_back_buffers made exactly once.       *)
(***************************************************************************)
TokenDestruction ==
    /\ [][deletedTokens' # deletedTokens =>
             StepOf("destroy_context") \/ StepOf("create_context")]_vars
    /\ []((Running /\ ContextLive) =>
            /\ DOMAIN deletedTokens =
                 1..(Len(acquireBuffers_) + Cardinality(Holders))
            /\ \A t \in DOMAIN deletedTokens : deletedTokens[t] = 0)
    /\ [][(StepOf("destroy_context") /\ ContextLive) =>
             /\ ~ContextLive'
             /\ DOMAIN deletedTokens' =
                  1..AcquireBufferCount(BackBufferCount(settings_.back_buffer_count))
             /\ \A t \in DOMAIN deletedTokens' :
                  /\ deletedTokens'[t] = 1
                  /\ Contains(acquireBuffers_, t)
                       \/ \E i \in Holders : backBuffers_[i].acquireBuffer_ = t]_vars

TornDownWithTokensHeld ==
    /\ Running /\ ~ContextLive
    /\ last.op = "destroy_context" /\ Called(last, "vkDestroyDevice")
    /\ ~settings_.no_present
    /\ acquiredFrameId >= 3
    /\ Len(deletedTokens) = AcquireBufferCount(BackBufferCount(settings_.back_buffer_count))
    /\ \A t \in DOMAIN deletedTokens : deletedTokens[t] = 1

(***************************************************************************)
(* C27  Consumer attach / detach alternation.  Over any sequence of        *)
(* create_swapchain, resize_swapchain and destroy_swapchain calls the      *)
(* frame processor is attached exactly when ctx_.swapchain is not null,    *)
(* and the attach_swapchain / detach_swapchain callbacks of every          *)
(* operation continue a strict alternation that starts with                *)
(* attach_swapchain: an attach only while detached, a detach only while    *)
(* attached.                                                               *)
(***************************************************************************)
AttachCalls(calls) ==
    SelectSeq(calls, LAMBDA c : c \in {"attach_swapchain", "detach_swapchain"})

Alternates(callbacks, attached) ==
    \A i \in 1..Len(callbacks) :
        (callbacks[i] = "attach_swapchain") <=> (attached <=> (i % 2 = 0))

AttachDetachAlternation ==
    /\ [](Running => (consumerAttached <=> swapchain # VK_NULL_HANDLE))
    /\ [][caps' = caps =>
             Alternates(AttachCalls(last'.calls), consumerAttached)]_vars

====
